---- MODULE Spec2Model ----
(***************************************************************************)
(* Model of class ARI (src/main.py): the nonlinear resistivity inversion,  *)
(* the quadratic inversion and the Monte-Carlo driver inversion_uq.        *)
(*                                                                         *)
(* Numbers.  Floats are fixed-point integers: a resistivity or a volume    *)
(* fraction v is held as v*Scale, an objective value or a residual as      *)
(* v*Prec.  NaN and Inf are two integers outside every computed range.     *)
(* Tables (pandas DataFrames) are records                                  *)
(*     [index : sequence of keys, columns : sequence of names,             *)
(*      data : sequence of rows, a row a function column -> value].        *)
(***************************************************************************)
EXTENDS Integers, Sequences, FiniteSets, TLC

Scale == 2 * 5
Prec == 10 * 10
NaN == 0 - 2 * 1000000
Inf == 2 * 1000000
ValueError == "ValueError"

\* ---- bounds of the model ----
MaxN == 2
MaxEnsemble == 2
MaxSeed == 1
MaxCalls == 1
MaxRepeat == 2
MaxPairCalls == 2
MaxRes == 3

\* ---- configuration set by ARI.__init__ ----
LambdaInv == 10000
MaxIter == 100
x0 == <<Scale \div 2, (3 * Scale) \div 2>>

\* ---------------------------------------------------------------------
\* arithmetic helpers
\* ---------------------------------------------------------------------
Abs(a) == IF a < 0 THEN 0 - a ELSE a

Div(a, b) == IF b < 0 THEN (0 - a) \div (0 - b) ELSE a \div b

RECURSIVE SqrtIter(_, _)
SqrtIter(n, x) ==
    LET y == (x + n \div x) \div 2
    IN  IF y >= x THEN x ELSE SqrtIter(n, y)

\* floor of the square root: Newton's iteration from a power of two above it
ISqrt(n) ==
    IF n < 2 THEN n
    ELSE SqrtIter(n, IF n < 256 THEN 16 ELSE IF n < 65536 THEN 256
                     ELSE IF n < 16777216 THEN 4096 ELSE 46341)

\* linalg.norm of a 2-vector
Norm2(u, v) == ISqrt(u * u + v * v)

RECURSIVE SumSeq(_)
SumSeq(s) == IF s = <<>> THEN 0 ELSE Head(s) + SumSeq(Tail(s))

MaxSeq(s) == CHOOSE m \in {s[i] : i \in DOMAIN s} : \A i \in DOMAIN s : s[i] <= m

MinSeq(s) == CHOOSE m \in {s[i] : i \in DOMAIN s} : \A i \in DOMAIN s : m <= s[i]

\* np.std (population standard deviation, ddof = 0)
Std(s) ==
    LET n == Len(s)
        sq == [i \in DOMAIN s |-> s[i] * s[i]]
    IN  ISqrt(n * SumSeq(sq) - SumSeq(s) * SumSeq(s)) \div n

\* ArgMax taking the last occurrence of the maximum instead of the first
ArgMaxLast(s) == CHOOSE i \in DOMAIN s : s[i] = MaxSeq(s) /\ \A j \in DOMAIN s : s[j] = MaxSeq(s) => j <= i

\* np.argmax: the position of the first occurrence of the maximum
ArgMax(s) == CHOOSE i \in DOMAIN s : s[i] = MaxSeq(s) /\ \A j \in DOMAIN s : s[j] = MaxSeq(s) => i <= j

\* ---------------------------------------------------------------------
\* tables
\* ---------------------------------------------------------------------
Col(df, c) == [i \in DOMAIN df.data |-> df.data[i][c]]

HasCol(df, c) == \E k \in DOMAIN df.columns : df.columns[k] = c

\* df[c] = values : the column is appended when new, overwritten otherwise
SetCol(df, c, values) ==
    [index   |-> df.index,
     columns |-> IF HasCol(df, c) THEN df.columns ELSE Append(df.columns, c),
     data    |-> [i \in DOMAIN df.data |-> (c :> values[i]) @@ df.data[i]]]

ColSet(cs) == {cs[k] : k \in DOMAIN cs}

\* df[[c1, c2, ...]]
Select(df, cs) ==
    [index   |-> df.index,
     columns |-> cs,
     data    |-> [i \in DOMAIN df.data |-> [c \in ColSet(cs) |-> df.data[i][c]]]]

RECURSIVE Flatten(_)
Flatten(ss) == IF ss = <<>> THEN <<>> ELSE Head(ss) \o Flatten(Tail(ss))

Matches(R, key) == SelectSeq([j \in DOMAIN R.index |-> j], LAMBDA j : R.index[j] = key)

\* Join pairing every left row with every right row, whatever their keys
JoinCross(L, R) ==
    LET pairs == Flatten([i \in DOMAIN L.index |-> [j \in DOMAIN R.index |-> <<i, j>>]])
    IN  [index   |-> [k \in DOMAIN pairs |-> L.index[pairs[k][1]]],
         columns |-> L.columns \o R.columns,
         data    |-> [k \in DOMAIN pairs |-> L.data[pairs[k][1]] @@ R.data[pairs[k][2]]]]

\* DataFrame.join (left join on the index): a left row is paired with every
\* right row of its key, in left order; without a match the right columns are NaN
Join(L, R) ==
    LET pairsOf(i) ==
            LET m == Matches(R, L.index[i])
            IN  IF m = <<>> THEN << <<i, 0>> >> ELSE [k \in DOMAIN m |-> <<i, m[k]>>]
        pairs == Flatten([i \in DOMAIN L.index |-> pairsOf(i)])
        right(j) == IF j = 0 THEN [c \in ColSet(R.columns) |-> NaN] ELSE R.data[j]
    IN  [index   |-> [k \in DOMAIN pairs |-> L.index[pairs[k][1]]],
         columns |-> L.columns \o R.columns,
         data    |-> [k \in DOMAIN pairs |-> L.data[pairs[k][1]] @@ right(pairs[k][2])]]

\* ---------------------------------------------------------------------
\* resistivity_inversion
\* ---------------------------------------------------------------------

\* the shale end-member read off a table: Rv and Rh at the row of maximum GR
EndMember(df) ==
    [Rvsh |-> Col(df, "Rv")[ArgMax(Col(df, "GR"))],
     Rhsh |-> Col(df, "Rh")[ArgMax(Col(df, "GR"))]]

\* Rvsh / Rhsh as resolved by lines 103-106: the override when given (not NaN,
\* standing for None), the table's own end-member otherwise
ResolveEndMember(df, Rvsh, Rhsh) ==
    [Rvsh |-> IF Rvsh = NaN THEN EndMember(df).Rvsh ELSE Rvsh,
     Rhsh |-> IF Rhsh = NaN THEN EndMember(df).Rhsh ELSE Rhsh]

\* Csh_lin = (GR - GR.min()) / (GR.max() - GR.min()); 0/0 is NaN
CshLin(df) ==
    LET gr == Col(df, "GR")
        lo == MinSeq(gr)
        hi == MaxSeq(gr)
    IN  [i \in DOMAIN gr |-> IF hi = lo THEN NaN ELSE ((gr[i] - lo) * Scale) \div (hi - lo)]

\* The residuals divide by Rv (weighted only), Rh, Rhsh and Rs: a zero divisor
\* makes an entry of eqs inf or nan, and scipy.linalg.norm (check_finite) then
\* raises ValueError.
NonFinite(variables, p) ==
    \/ p.Wd /\ p.Rv = 0
    \/ p.Rh = 0
    \/ p.Rhsh = 0
    \/ variables[2] = 0

\* objective(variables, Rv, Rh), in units of 1/Prec
objective(variables, p) ==
    LET Csh == variables[1]
        Rs  == variables[2]
        num1 == Csh * p.Rvsh + (Scale - Csh) * Rs - Scale * p.Rv
        eq2  == Div(Prec * Csh, p.Rhsh) + Div(Prec * (Scale - Csh), Rs) - Div(Prec * Scale, p.Rh)
        e1   == IF p.Wd THEN Div(Prec * num1, Scale * p.Rv) ELSE (Prec * num1) \div (Scale * Scale)
        e2   == IF p.Wd THEN (eq2 * p.Rh) \div Scale ELSE eq2
    IN  Norm2(e1, e2) + (Prec * Norm2(Csh, Rs)) \div (Scale * LambdaInv)

\* The descent at x (fx = objective(x)): the objective is evaluated at the grid
\* neighbours of x inside bounds = [(0,1), (None,None)] (Csh one unit, Rs two
\* units either way) and x moves to the lowest of them while that lowers the
\* objective and fewer than MaxIter passes were made.  jac is the two-point
\* finite-difference gradient at the point returned, one-sided at the upper
\* bound of Csh.
RECURSIVE Descend(_, _, _, _, _)
\* one pass, given the objective at the four neighbours (Inf outside the bounds)
DescendStep(x, fx, it, nfev, p, f1, f2, f3, f4) ==
    LET up == x[1] < Scale
        dn == x[1] > 0
        n  == nfev + 2 + (IF up THEN 1 ELSE 0) + (IF dn THEN 1 ELSE 0)
        m  == IF f1 <= f2 /\ f1 <= f3 /\ f1 <= f4 THEN <<f1, <<x[1] + 1, x[2]>> >>
              ELSE IF f2 <= f3 /\ f2 <= f4 THEN <<f2, <<x[1] - 1, x[2]>> >>
              ELSE IF f3 <= f4 THEN <<f3, <<x[1], x[2] + 2>> >>
              ELSE <<f4, <<x[1], x[2] - 2>> >>
    IN  IF it < MaxIter /\ m[1] < fx
        THEN Descend(m[2], m[1], it + 1, n, p)
        ELSE [status |-> "ok", x |-> x, fun |-> fx,
              jac |-> <<IF up THEN f1 - fx ELSE fx - f2, f3 - fx>>, nfev |-> n]

Descend(x, fx, it, nfev, p) ==
    DescendStep(x, fx, it, nfev, p,
                IF x[1] < Scale THEN objective(<<x[1] + 1, x[2]>>, p) ELSE Inf,
                IF x[1] > 0 THEN objective(<<x[1] - 1, x[2]>>, p) ELSE Inf,
                objective(<<x[1], x[2] + 2>>, p),
                objective(<<x[1], x[2] - 2>>, p))

\* optimize.minimize(objective, x0 = start, bounds = [(0,1),(None,None)],
\* maxiter = MaxIter): a bounded descent over the grid from the start point.
\* The first evaluation, at the start point, raises when the objective is
\* not finite.
Minimize(start, p) ==
    IF NonFinite(start, p)
    THEN [status |-> ValueError, x |-> start, fun |-> NaN, jac |-> <<NaN, NaN>>, nfev |-> 1]
    ELSE Descend(start, objective(start, p), 0, 1, p)

\* StartPoint warm-started from the solution of the row before
StartPointWarm(acc) == IF acc = <<>> THEN x0 ELSE acc[Len(acc)].x

\* the x0 handed to optimize.minimize for the next row (acc: the solutions so
\* far): self.x0, whatever was solved before
StartPoint(acc) == x0

\* the for-loop of inversion(): one solve per row, in row order; an exception
\* raised by a solve ends the loop.  nsolve counts the calls of minimize.
RECURSIVE InversionLoop(_, _, _, _)
\* the rest of the loop once the next row's solve has given solution
InversionNext(rows, acc, cfg, em, solution) ==
    IF solution.status = ValueError
    THEN [status |-> ValueError, solved |-> acc, nsolve |-> Len(acc) + 1]
    ELSE InversionLoop(rows, Append(acc, solution), cfg, em)

InversionLoop(rows, acc, cfg, em) ==
    IF Len(acc) = Len(rows)
    THEN [status |-> "ok", solved |-> acc, nsolve |-> Len(acc)]
    ELSE InversionNext(rows, acc, cfg, em,
                       Minimize(StartPoint(acc),
                                [Rv |-> rows[Len(acc) + 1]["Rv"], Rh |-> rows[Len(acc) + 1]["Rh"],
                                 Rvsh |-> em.Rvsh, Rhsh |-> em.Rhsh, Wd |-> cfg.Wd_matrix]))

SolColumns == <<"Rv", "Rh", "Csh", "Rs", "fun", "nfev", "jac1", "jac2", "norm_jac">>

\* lines 130-131: the table sol made of what the loop collected
SolTable(res_aniso, loop) ==
    [status |-> loop.status,
     nsolve |-> loop.nsolve,
     sol    |-> [index   |-> res_aniso.index,
                 columns |-> SolColumns,
                 data    |-> [i \in DOMAIN loop.solved |->
                     [c \in ColSet(SolColumns) |->
                        CASE c = "Rv"   -> res_aniso.data[i]["Rv"]
                          [] c = "Rh"   -> res_aniso.data[i]["Rh"]
                          [] c = "Csh"  -> loop.solved[i].x[1]
                          [] c = "Rs"   -> loop.solved[i].x[2]
                          [] c = "fun"  -> loop.solved[i].fun
                          [] c = "nfev" -> loop.solved[i].nfev
                          [] c = "jac1" -> loop.solved[i].jac[1]
                          [] c = "jac2" -> loop.solved[i].jac[2]
                          [] OTHER      -> Norm2(loop.solved[i].jac[1], loop.solved[i].jac[2])]]]]

\* inversion(): the table sol, indexed like res_aniso = df[['Rv','Rh']]
inversion(df, cfg, em) ==
    SolTable(Select(df, <<"Rv", "Rh">>),
             InversionLoop(Select(df, <<"Rv", "Rh">>).data, <<>>, cfg, em))

\* simulate(sol): Rv_sim and Rh_sim = 1 / (Csh/Rhsh + (1-Csh)/Rs); 1/0 is inf
simulate(sol, em) ==
    [index   |-> sol.index,
     columns |-> <<"Rv_sim", "Rh_sim">>,
     data    |-> [i \in DOMAIN sol.data |->
        LET Csh == sol.data[i]["Csh"]
            Rs  == sol.data[i]["Rs"]
            den == Csh * Rs + (Scale - Csh) * em.Rhsh
        IN  [c \in {"Rv_sim", "Rh_sim"} |->
                IF c = "Rv_sim"
                THEN (Csh * em.Rvsh + (Scale - Csh) * Rs) \div Scale
                ELSE IF den = 0 THEN Inf ELSE Div(Scale * em.Rhsh * Rs, den)]]]

\* |(pred - true) / true| * 100, with pandas' inf and nan for a zero divisor
RelErr(pred, true) ==
    IF pred = Inf THEN Inf
    ELSE IF true = 0 THEN (IF pred = 0 THEN NaN ELSE Inf)
    ELSE (100 * Abs(pred - true)) \div Abs(true)

\* error(sol, sim)
error(sol, sim) ==
    [index   |-> sol.index,
     columns |-> <<"Rv_err", "Rh_err">>,
     data    |-> [i \in DOMAIN sol.data |->
        [c \in {"Rv_err", "Rh_err"} |->
            IF c = "Rv_err"
            THEN RelErr(sim.data[i]["Rv_sim"], sol.data[i]["Rv"])
            ELSE RelErr(sim.data[i]["Rh_sim"], sol.data[i]["Rh"])]]]

\* df['Csh_lin'] = ... : the assignment of line 107, applied to the table passed in
AddCshLin(df) == SetCol(df, "Csh_lin", CshLin(df))

\* lines 146-151: val.join(sol).join(sim).join(err), given what lines 103-148
\* computed; nothing is returned when the inversion raised
ResInv(df, em, inv, sim) ==
    [df     |-> df,
     status |-> inv.status,
     em     |-> em,
     nsolve |-> inv.nsolve,
     value  |-> IF inv.status = "ok"
                THEN Join(Join(Join(Select(df, <<"AT", "GR", "Csh_lin">>), inv.sol), sim),
                          error(inv.sol, sim))
                ELSE [index |-> <<>>, columns |-> <<>>, data |-> <<>>]]

\* lines 147-148 on: sol = inversion(), sim = simulate(sol)
Simulated(df, em, inv) == ResInv(df, em, inv, simulate(inv.sol, em))

\* the body of resistivity_inversion once df carries Csh_lin and em is resolved
Inverted(df, cfg, em) == Simulated(df, em, inversion(df, cfg, em))

\* resistivity_inversion(df, Rvsh, Rhsh) as a function of its arguments:
\*   df      the argument table after the call (line 107 writes into it)
\*   status  "ok" or the exception that leaves the call
\*   value   the table returned (and stored in self.res_inv) when status = "ok"
\*   em      the end-member the solves used; nsolve: the calls of minimize
resistivity_inversion(df0, cfg, Rvsh, Rhsh) ==
    Inverted(AddCshLin(df0), cfg, ResolveEndMember(df0, Rvsh, Rhsh))

\* ---------------------------------------------------------------------
\* quadratic_inversion
\* ---------------------------------------------------------------------

\* A root (p + s*sqrt(d)) / q of a polynomial with integer coefficients, kept
\* exactly: s is 1, -1 or 0, and d < 0 is a complex root.  q = 0 is np.nan.
Root(p, s, d, q) == [p |-> p, s |-> s, d |-> d, q |-> q]

NaNRoot == Root(0, 0, 0, 0)

ZeroRoot == Root(0, 0, 0, 1)

\* lines 161-163
QuadCoef(Rv, Rh, Rvsh, Rhsh) ==
    [a |-> Rh * Rvsh - Rh * Rhsh,
     b |-> Rv * Rv + Rvsh * Rhsh - 2 * Rh * Rhsh,
     c |-> Rv * Rhsh - Rh * Rhsh]

RECURSIVE StripLeading(_)
StripLeading(p) == IF p # <<>> /\ Head(p) = 0 THEN StripLeading(Tail(p)) ELSE p

RECURSIVE StripTrailing(_)
StripTrailing(p) ==
    IF p # <<>> /\ p[Len(p)] = 0 THEN StripTrailing(SubSeq(p, 1, Len(p) - 1)) ELSE p

\* np.roots(p): leading and trailing zero coefficients are stripped, the roots
\* of what is left are the eigenvalues of its companion matrix, and one zero
\* root is appended per trailing zero stripped.  All-zero p has no root.
NpRoots(p) ==
    LET q  == StripTrailing(StripLeading(p))
        tz == Len(StripLeading(p)) - Len(q)
        eig == CASE Len(q) = 3 ->
                      <<Root(0 - q[2], 1, q[2] * q[2] - 4 * q[1] * q[3], 2 * q[1]),
                        Root(0 - q[2], 0 - 1, q[2] * q[2] - 4 * q[1] * q[3], 2 * q[1])>>
                 [] Len(q) = 2 -> <<Root(0 - q[2], 0, 0, q[1])>>
                 [] OTHER -> <<>>
    IN  IF q = <<>> THEN <<>> ELSE eig \o [k \in 1..tz |-> ZeroRoot]

\* QuadRow with the two columns exchanged
QuadRowSwapped(qsol) ==
    IF Len(qsol) = 1 THEN [Csh_q1 |-> NaNRoot, Csh_q2 |-> qsol[1]]
    ELSE IF Len(qsol) = 2 THEN [Csh_q1 |-> qsol[2], Csh_q2 |-> qsol[1]]
    ELSE [Csh_q1 |-> NaNRoot, Csh_q2 |-> NaNRoot]

\* lines 165-170: the row stored for a sample, by the number of roots returned
QuadRow(qsol) ==
    IF Len(qsol) = 1 THEN [Csh_q1 |-> qsol[1], Csh_q2 |-> NaNRoot]
    ELSE IF Len(qsol) = 2 THEN [Csh_q1 |-> qsol[1], Csh_q2 |-> qsol[2]]
    ELSE [Csh_q1 |-> NaNRoot, Csh_q2 |-> NaNRoot]

\* quadratic_inversion(df, Rvsh, Rhsh): the table stored in self.quad_inv
quadratic_inversion(df, Rvsh, Rhsh) ==
    LET em == ResolveEndMember(df, Rvsh, Rhsh)
    IN  [em    |-> em,
         value |-> [index   |-> df.index,
                    columns |-> <<"Csh_q1", "Csh_q2">>,
                    data    |-> [i \in DOMAIN df.data |->
                        LET k == QuadCoef(df.data[i]["Rv"], df.data[i]["Rh"], em.Rvsh, em.Rhsh)
                        IN  QuadRow(NpRoots(<<k.a, k.b, k.c>>))]]]

\* ---------------------------------------------------------------------
\* inversion_uq
\* ---------------------------------------------------------------------

\* numpy's global generator: a state in 0..15, stepped once per number drawn
RngStep(s) == (5 * s + 3) % 16

\* the standard-normal number delivered in state s, quantised to -2..2
RngValue(s) == (s % 5) - 2

RECURSIVE RngDraws(_, _)
\* np.random.normal(0, 1, n) from state s: <<the n numbers, the state left>>
RngDraws(s, n) ==
    IF n = 0 THEN <<<<>>, s>>
    ELSE LET rest == RngDraws(RngStep(s), n - 1)
         IN  << <<RngValue(RngStep(s))>> \o rest[1], rest[2] >>

RoundDiv(a, b) == (2 * a + b) \div (2 * b)

\* NoiseTerm without the factor noise_lvl/100
NoiseTermUnscaled(e, noise_lvl, sigma) == e * sigma

\* e*(noise_lvl/100)*sigma, lines 184-185
NoiseTerm(e, noise_lvl, sigma) == RoundDiv(e * noise_lvl * sigma, 100)

\* df_noise: a copy of df with Rv and Rh perturbed by the one vector e
Perturb(df, e, noise_lvl, sigma_v, sigma_h) ==
    SetCol(SetCol(df, "Rv", [i \in DOMAIN df.data |->
                                df.data[i]["Rv"] + NoiseTerm(e[i], noise_lvl, sigma_v)]),
           "Rh", [i \in DOMAIN df.data |->
                                df.data[i]["Rh"] + NoiseTerm(e[i], noise_lvl, sigma_h)])

\* the for-loop of inversion_uq; sig = [v, h] is computed once from df (line
\* 179); st = [rng, realizations, ems, noisy, draws, nsolve], one entry per pass made
RECURSIVE UqLoop(_, _, _, _)
\* lines 187-188: the pass has inverted df_noise, with outcome r
UqCollect(df, cfg, sig, st, draw, df_noise, r) ==
    LET st2 == [rng          |-> draw[2],
                realizations |-> IF r.status = "ok" THEN Append(st.realizations, r.value)
                                 ELSE st.realizations,
                ems          |-> Append(st.ems, r.em),
                noisy        |-> Append(st.noisy, df_noise),
                draws        |-> Append(st.draws, draw[1]),
                nsolve       |-> st.nsolve + r.nsolve]
    IN  IF r.status = "ok" THEN UqLoop(df, cfg, sig, st2)
        ELSE [status |-> r.status] @@ st2

\* lines 181-187: the pass has built df_noise from the vector drawn
UqInvert(df, cfg, sig, st, draw, df_noise) ==
    UqCollect(df, cfg, sig, st, draw, df_noise, resistivity_inversion(df_noise, cfg, NaN, NaN))

\* lines 183-185: the pass has drawn draw = <<e, generator state left>>
UqPerturb(df, cfg, sig, st, draw) ==
    UqInvert(df, cfg, sig, st, draw, Perturb(df, draw[1], cfg.noise_lvl, sig.v, sig.h))

UqLoop(df, cfg, sig, st) ==
    IF Len(st.noisy) = cfg.n_ensemble
    THEN [status |-> "ok"] @@ st
    ELSE UqPerturb(df, cfg, sig, st, RngDraws(st.rng, Len(df.data)))

\* inversion_uq(df)
inversion_uq(df, cfg, rng0) ==
    UqLoop(df, cfg, [v |-> Std(Col(df, "Rv")), h |-> Std(Col(df, "Rh"))],
           [rng |-> rng0, realizations |-> <<>>, ems |-> <<>>, noisy |-> <<>>,
            draws |-> <<>>, nsolve |-> 0])

\* ---------------------------------------------------------------------
\* the state machine: one ARI object, one caller's table, numpy's generator
\* ---------------------------------------------------------------------
VARIABLES
    df,     \* the caller's sample table
    ari,    \* the ARI object: n_ensemble, noise_lvl, Wd_matrix, res_inv, quad_inv
    rng,    \* the state of numpy's global random generator
    ret,    \* the last call: operation, arguments as passed, outcome
    prev,   \* the call before it
    calls,  \* the number of calls made
    fwd     \* a synthetic sample of the forward mixing model (SpecFwd)

vars == <<df, ari, rng, ret, prev, calls, fwd>>

EmptyTable == [index |-> <<>>, columns |-> <<>>, data |-> <<>>]

\* the samples tables are made of, in units of 1/Scale: two of them share the
\* maximum GR, one has Rv = 0
SampleKinds ==
    {[AT |-> 1, GR |-> 3, Rv |-> 12, Rh |-> 6],
     [AT |-> 2, GR |-> 7, Rv |-> 20, Rh |-> 8],
     [AT |-> 3, GR |-> 7, Rv |-> 16, Rh |-> 10],
     [AT |-> 4, GR |-> 5, Rv |-> 0,  Rh |-> 4]}

InputColumns == <<"AT", "GR", "Rv", "Rh">>

\* depth keys of a table of n rows: strictly increasing, or all equal
Indexes(n) == {[i \in 1..n |-> i], [i \in 1..n |-> 1]}

Table(idx, rows) == [index |-> idx, columns |-> InputColumns, data |-> rows]

Datasets ==
    UNION {{Table(idx, rows) : idx \in Indexes(n), rows \in [1..n -> SampleKinds]} : n \in 1..MaxN}

NoiseLevels == {0, 10}

Configs == [n_ensemble : 1..MaxEnsemble, noise_lvl : NoiseLevels, Wd_matrix : BOOLEAN]

\* (Rvsh, Rhsh) as passed by the caller; NaN stands for None
Overrides == {<<NaN, NaN>>, <<8, 8>>}

NoCall ==
    [op |-> "none", arg |-> EmptyTable, Rvsh |-> NaN, Rhsh |-> NaN, status |-> "ok",
     value |-> EmptyTable, ems |-> <<>>, noisy |-> <<>>, draws |-> <<>>, nsolve |-> 0]

NoFwd == [stage |-> "none"]

Cfg == [n_ensemble |-> ari.n_ensemble, noise_lvl |-> ari.noise_lvl, Wd_matrix |-> ari.Wd_matrix]

\* ARI() with its public fields set by the caller, a table, and whatever state
\* earlier use left numpy's generator in
Init ==
    /\ df \in Datasets
    /\ \E c \in Configs :
          ari = [n_ensemble |-> c.n_ensemble, noise_lvl |-> c.noise_lvl,
                 Wd_matrix |-> c.Wd_matrix, res_inv |-> EmptyTable, quad_inv |-> EmptyTable]
    /\ rng \in 0..MaxSeed
    /\ ret = NoCall
    /\ prev = NoCall
    /\ calls = 0
    /\ fwd = NoFwd

\* ari.resistivity_inversion(df, Rvsh, Rhsh)
ResistivityInversionCall(Rvsh, Rhsh) ==
    /\ \E r \in {resistivity_inversion(df, Cfg, Rvsh, Rhsh)} :
          /\ df' = r.df
          /\ ari' = IF r.status = "ok" THEN [ari EXCEPT !.res_inv = r.value] ELSE ari
          /\ ret' = [op |-> "resistivity_inversion", arg |-> df, Rvsh |-> Rvsh, Rhsh |-> Rhsh,
                     status |-> r.status, value |-> r.value, ems |-> <<r.em>>,
                     noisy |-> <<>>, draws |-> <<>>, nsolve |-> r.nsolve]
    /\ prev' = ret
    /\ calls' = calls + 1
    /\ UNCHANGED <<rng, fwd>>

\* ari.quadratic_inversion(df, Rvsh, Rhsh)
QuadraticInversionCall(Rvsh, Rhsh) ==
    /\ \E r \in {quadratic_inversion(df, Rvsh, Rhsh)} :
          /\ ari' = [ari EXCEPT !.quad_inv = r.value]
          /\ ret' = [op |-> "quadratic_inversion", arg |-> df, Rvsh |-> Rvsh, Rhsh |-> Rhsh,
                     status |-> "ok", value |-> r.value, ems |-> <<r.em>>,
                     noisy |-> <<>>, draws |-> <<>>, nsolve |-> 0]
    /\ prev' = ret
    /\ calls' = calls + 1
    /\ UNCHANGED <<df, rng, fwd>>

\* ari.inversion_uq(df)
InversionUqCall ==
    /\ \E r \in {inversion_uq(df, Cfg, rng)} :
          /\ rng' = r.rng
          /\ ari' = IF r.realizations # <<>>
                    THEN [ari EXCEPT !.res_inv = r.realizations[Len(r.realizations)]]
                    ELSE ari
          /\ ret' = [op |-> "inversion_uq", arg |-> df, Rvsh |-> NaN, Rhsh |-> NaN,
                     status |-> r.status, value |-> r.realizations, ems |-> r.ems,
                     noisy |-> r.noisy, draws |-> r.draws, nsolve |-> r.nsolve]
    /\ prev' = ret
    /\ calls' = calls + 1
    /\ UNCHANGED <<df, fwd>>

CallResistivityInversion(Rvsh, Rhsh) == calls < MaxCalls /\ ResistivityInversionCall(Rvsh, Rhsh)

CallQuadraticInversion(Rvsh, Rhsh) == calls < MaxCalls /\ QuadraticInversionCall(Rvsh, Rhsh)

CallInversionUq == calls < MaxCalls /\ InversionUqCall

Next ==
    \/ \E o \in Overrides : CallResistivityInversion(o[1], o[2])
    \/ \E o \in Overrides : CallQuadraticInversion(o[1], o[2])
    \/ CallInversionUq

Spec == Init /\ [][Next]_vars

\* ---------------------------------------------------------------------
\* SpecRepeat: inversion_uq called again and again on the same table
\* ---------------------------------------------------------------------
RepeatInversionUq == calls < MaxRepeat /\ InversionUqCall

NextRepeat == RepeatInversionUq

SpecRepeat == Init /\ [][NextRepeat]_vars

\* ---------------------------------------------------------------------
\* SpecPair: resistivity_inversion with a given end-member, on a table and
\* then on an edited one
\* ---------------------------------------------------------------------
FixedEndMembers == {<<8, 8>>, <<24, 6>>}

RawRows(t) == [i \in DOMAIN t.data |-> [c \in ColSet(InputColumns) |-> t.data[i][c]]]

Fresh(rows) == Table([i \in DOMAIN rows |-> i], rows)

Reverse(rows) == [i \in DOMAIN rows |-> rows[Len(rows) + 1 - i]]

DropRow(rows, i) == SubSeq(rows, 1, i - 1) \o SubSeq(rows, i + 1, Len(rows))

\* the tables a caller makes of the samples of t: reordered, with a sample
\* removed, added or changed
Edits(t) ==
    LET rows == RawRows(t)
    IN  {Fresh(Reverse(rows))}
        \cup {Fresh(DropRow(rows, i)) : i \in {j \in DOMAIN rows : Len(rows) > 1}}
        \cup {Fresh(Append(rows, k)) : k \in {x \in SampleKinds : Len(rows) < MaxN}}
        \cup {Fresh([rows EXCEPT ![i] = k]) : i \in DOMAIN rows, k \in SampleKinds}

InitPair ==
    /\ df \in {t \in Datasets : \A i \in DOMAIN t.index : t.index[i] = i}
    /\ \E w \in BOOLEAN :
          ari = [n_ensemble |-> 1, noise_lvl |-> 0, Wd_matrix |-> w,
                 res_inv |-> EmptyTable, quad_inv |-> EmptyTable]
    /\ rng = 0
    /\ ret = NoCall
    /\ prev = NoCall
    /\ calls = 0
    /\ fwd = NoFwd

PairInversion(Rvsh, Rhsh) == calls < MaxPairCalls /\ ResistivityInversionCall(Rvsh, Rhsh)

\* the caller passes another table to the next call
EditData ==
    /\ calls = 1
    /\ df' \in Edits(df)
    /\ UNCHANGED <<ari, rng, ret, prev, calls, fwd>>

NextPair ==
    \/ \E o \in FixedEndMembers : PairInversion(o[1], o[2])
    \/ EditData

SpecPair == InitPair /\ [][NextPair]_vars

\* ---------------------------------------------------------------------
\* SpecFwd: quadratic_inversion's coefficients and roots for a sample made by
\* the forward mixing model from Csh = p/FwdDen, Rs, Rvsh, Rhsh (whole ohm-m).
\*   Rv = Csh*Rvsh + (1-Csh)*Rs = n/FwdDen,  n = p*Rvsh + (FwdDen-p)*Rs
\*   Rh = 1/(Csh/Rhsh + (1-Csh)/Rs) = FwdDen*Rhsh*Rs/m,  m = p*Rs + (FwdDen-p)*Rhsh
\* The four resistivities are held exactly, as integers in units of
\* 1/(FwdDen*m); a, b and c are homogeneous of degree 2 in them, so the roots
\* do not depend on the unit.
\* ---------------------------------------------------------------------
FwdDen == 2 * 2

FwdInputs ==
    [stage : {"chosen"}, p : 0..FwdDen, Rs : 1..MaxRes, Rvsh : 1..MaxRes, Rhsh : 1..MaxRes]

InitFwd ==
    /\ df = EmptyTable
    /\ ari = [n_ensemble |-> 1, noise_lvl |-> 0, Wd_matrix |-> TRUE,
              res_inv |-> EmptyTable, quad_inv |-> EmptyTable]
    /\ rng = 0
    /\ ret = NoCall
    /\ prev = NoCall
    /\ calls = 0
    /\ fwd \in FwdInputs

\* the forward mixing model
Forward ==
    /\ fwd.stage = "chosen"
    /\ LET n == fwd.p * fwd.Rvsh + (FwdDen - fwd.p) * fwd.Rs
           m == fwd.p * fwd.Rs + (FwdDen - fwd.p) * fwd.Rhsh
       IN  fwd' = [stage |-> "sample", p |-> fwd.p, unit |-> FwdDen * m,
                   Rv |-> n * m, Rh |-> FwdDen * FwdDen * fwd.Rhsh * fwd.Rs,
                   Rvsh |-> fwd.Rvsh * FwdDen * m, Rhsh |-> fwd.Rhsh * FwdDen * m]
    /\ UNCHANGED <<df, ari, rng, ret, prev, calls>>

\* the body of quadratic_inversion's loop on the sample, with Rvsh and Rhsh given
QuadraticOnSample ==
    /\ fwd.stage = "sample"
    /\ \E k \in {QuadCoef(fwd.Rv, fwd.Rh, fwd.Rvsh, fwd.Rhsh)} :
           fwd' = [stage |-> "solved", p |-> fwd.p, unit |-> fwd.unit,
                   Rv |-> fwd.Rv, Rh |-> fwd.Rh, Rvsh |-> fwd.Rvsh, Rhsh |-> fwd.Rhsh,
                   a |-> k.a, b |-> k.b, c |-> k.c,
                   row |-> QuadRow(NpRoots(<<k.a, k.b, k.c>>))]
    /\ UNCHANGED <<df, ari, rng, ret, prev, calls>>

NextFwd == Forward \/ QuadraticOnSample

SpecFwd == InitFwd /\ [][NextFwd]_vars

\* ---------------------------------------------------------------------
\* properties
\* ---------------------------------------------------------------------
DistinctKeys(t) == \A i, j \in DOMAIN t.index : i # j => t.index[i] # t.index[j]

IsCall(r, op) == r.op = op

NoOverride(r) == r.Rvsh = NaN /\ r.Rhsh = NaN

\* C1: every realization of inversion_uq is inverted with the end-member of the
\* clean table: the (Rvsh, Rhsh) used in pass k equal those derived from the
\* samples as passed, for every k and every noise draw
C1_SameEndMember ==
    IsCall(ret, "inversion_uq") =>
        \A k \in DOMAIN ret.ems : ret.ems[k] = EndMember(ret.arg)

\* C2: when inversion_uq returns, for a table of N rows with distinct depth keys
\* and n_ensemble = M, it returns exactly M realizations of exactly N rows each,
\* row i of each carrying the depth key of sample i
C2_EnsembleShape ==
    (IsCall(ret, "inversion_uq") /\ ret.status = "ok" /\ DistinctKeys(ret.arg)) =>
        /\ Len(ret.value) = ari.n_ensemble
        /\ \A k \in DOMAIN ret.value :
              /\ Len(ret.value[k].data) = Len(ret.arg.data)
              /\ ret.value[k].index = ret.arg.index

C2_Witness ==
    /\ IsCall(ret, "inversion_uq") /\ ret.status = "ok" /\ DistinctKeys(ret.arg)
    /\ Len(ret.arg.data) = MaxN /\ ari.n_ensemble = MaxEnsemble
    /\ \E k \in DOMAIN ret.noisy : Col(ret.noisy[k], "Rv") # Col(ret.arg, "Rv")

\* C3: with noise_lvl = 0 every perturbed table has the Rv and Rh of the table
\* passed, whatever the noise vector, and the ensemble is n_ensemble copies of
\* what one resistivity_inversion of that table gives
C3_ZeroNoise ==
    (IsCall(ret, "inversion_uq") /\ ari.noise_lvl = 0) =>
        \A single \in {resistivity_inversion(ret.arg, Cfg, NaN, NaN)} :
            /\ \A k \in DOMAIN ret.noisy :
                  /\ Col(ret.noisy[k], "Rv") = Col(ret.arg, "Rv")
                  /\ Col(ret.noisy[k], "Rh") = Col(ret.arg, "Rh")
            /\ ret.status = single.status
            /\ ret.status = "ok" =>
                  /\ Len(ret.value) = ari.n_ensemble
                  /\ \A k \in DOMAIN ret.value : ret.value[k] = single.value

C3_Witness ==
    /\ IsCall(ret, "inversion_uq") /\ ari.noise_lvl = 0 /\ ret.status = "ok"
    /\ ari.n_ensemble = MaxEnsemble
    /\ Std(Col(ret.arg, "Rv")) > 0
    /\ \A k \in DOMAIN ret.draws : \E i \in DOMAIN ret.draws[k] : ret.draws[k][i] # 0

\* C4: a table with a sample of Rv <= 0 or Rh <= 0 makes resistivity_inversion
\* fail with InvalidSampleError before any solve
C4_InvalidSampleRejected ==
    (/\ IsCall(ret, "resistivity_inversion")
     /\ \E i \in DOMAIN ret.arg.data : ret.arg.data[i]["Rv"] <= 0 \/ ret.arg.data[i]["Rh"] <= 0)
    => (ret.status = "InvalidSampleError" /\ ret.nsolve = 0)

\* C7: without overrides, resistivity_inversion and quadratic_inversion both
\* take (Rvsh, Rhsh) from one sample: the first sample, in input order, whose
\* GR is the maximum
C7_EndMemberAtFirstMaxGR ==
    ((IsCall(ret, "resistivity_inversion") \/ IsCall(ret, "quadratic_inversion"))
      /\ NoOverride(ret)) =>
        \E i \in DOMAIN ret.arg.data :
            /\ \A j \in DOMAIN ret.arg.data : ret.arg.data[j]["GR"] <= ret.arg.data[i]["GR"]
            /\ \A j \in 1..(i - 1) : ret.arg.data[j]["GR"] < ret.arg.data[i]["GR"]
            /\ ret.ems[1] = [Rvsh |-> ret.arg.data[i]["Rv"], Rhsh |-> ret.arg.data[i]["Rh"]]

C7_Witness ==
    /\ IsCall(ret, "quadratic_inversion") /\ NoOverride(ret)
    /\ Len(ret.arg.data) = 2
    /\ ret.arg.data[1]["GR"] = ret.arg.data[2]["GR"]
    /\ ret.arg.data[1]["Rv"] # ret.arg.data[2]["Rv"]
    /\ ret.ems[1].Rvsh = ret.arg.data[1]["Rv"]

\* r is a root of a*X^2 + b*X + c
IsRoot(r, a, b, c) ==
    /\ r.q # 0
    /\ a * (r.p * r.p + r.s * r.s * r.d) + b * r.q * r.p + c * r.q * r.q = 0
    /\ r.s = 0 \/ r.d = 0 \/ 2 * a * r.p + b * r.q = 0

\* C8: quadratic_inversion stores one row per sample, in input order: both
\* roots, in the order returned, when a # 0; (root, NaN) when a = 0 and b # 0;
\* (NaN, NaN) when a = 0 and b = 0; the roots stored are the roots, unclamped
C8_QuadRows ==
    IsCall(ret, "quadratic_inversion") =>
        /\ ret.value.index = ret.arg.index
        /\ Len(ret.value.data) = Len(ret.arg.data)
        /\ \A i \in DOMAIN ret.arg.data :
              LET k   == QuadCoef(ret.arg.data[i]["Rv"], ret.arg.data[i]["Rh"],
                                  ret.ems[1].Rvsh, ret.ems[1].Rhsh)
                  row == ret.value.data[i]
                  qsol == NpRoots(<<k.a, k.b, k.c>>)
              IN  /\ k.a # 0 =>
                        /\ IsRoot(row.Csh_q1, k.a, k.b, k.c)
                        /\ IsRoot(row.Csh_q2, k.a, k.b, k.c)
                        /\ row.Csh_q1 = qsol[1] /\ row.Csh_q2 = qsol[2]
                  /\ (k.a = 0 /\ k.b # 0) =>
                        /\ IsRoot(row.Csh_q1, 0, k.b, k.c)
                        /\ row.Csh_q2 = NaNRoot
                  /\ (k.a = 0 /\ k.b = 0) =>
                        /\ row.Csh_q1 = NaNRoot
                        /\ row.Csh_q2 = NaNRoot

\* a call whose first row has one root, negative, and whose second has none
C8_Witness ==
    /\ IsCall(ret, "quadratic_inversion")
    /\ Len(ret.value.data) = 2
    /\ ret.value.data[1].Csh_q1.q # 0 /\ ret.value.data[1].Csh_q1.s = 0
    /\ ret.value.data[1].Csh_q1.p * ret.value.data[1].Csh_q1.q < 0
    /\ ret.value.data[1].Csh_q2 = NaNRoot
    /\ ret.value.data[2].Csh_q1 = NaNRoot

\* C10: resistivity_inversion(df) and inversion_uq(df) leave the caller's table
\* as it was: no column added, changed or removed
C10_InputUnchanged ==
    (IsCall(ret, "resistivity_inversion") \/ IsCall(ret, "inversion_uq")) => df = ret.arg

\* C6: two runs of inversion_uq on the same table with the same configuration
\* give the same ensemble
C6_Reproducible ==
    (IsCall(prev, "inversion_uq") /\ IsCall(ret, "inversion_uq") /\ prev.arg = ret.arg) =>
        (ret.status = prev.status /\ ret.value = prev.value)

SameSolve(r1, r2) ==
    /\ r1["Csh"] = r2["Csh"] /\ r1["Rs"] = r2["Rs"] /\ r1["fun"] = r2["fun"]
    /\ r1["nfev"] = r2["nfev"] /\ r1["jac1"] = r2["jac1"] /\ r1["jac2"] = r2["jac2"]

SameInputs(r1, r2) == r1["Rv"] = r2["Rv"] /\ r1["Rh"] = r2["Rh"]

\* C9: with the end-member and the configuration fixed, a sample's result is a
\* function of its own (Rv, Rh): two rows of equal (Rv, Rh), in one run or in
\* runs on two tables that differ in their other samples, have equal Csh, Rs,
\* fun, nfev and jac, whatever precedes them
C9_SampleIndependent ==
    /\ IsCall(ret, "resistivity_inversion") =>
          \A i, j \in DOMAIN ret.value.data :
              SameInputs(ret.value.data[i], ret.value.data[j])
                  => SameSolve(ret.value.data[i], ret.value.data[j])
    /\ (/\ IsCall(prev, "resistivity_inversion") /\ IsCall(ret, "resistivity_inversion")
        /\ prev.Rvsh = ret.Rvsh /\ prev.Rhsh = ret.Rhsh) =>
          \A i \in DOMAIN prev.value.data : \A j \in DOMAIN ret.value.data :
              SameInputs(prev.value.data[i], ret.value.data[j])
                  => SameSolve(prev.value.data[i], ret.value.data[j])

\* two runs with one end-member on tables that share a sample, first in the one
\* and second, after a different sample, in the other
C9_Witness ==
    /\ IsCall(prev, "resistivity_inversion") /\ IsCall(ret, "resistivity_inversion")
    /\ prev.Rvsh = ret.Rvsh /\ prev.Rhsh = ret.Rhsh
    /\ Len(prev.value.data) = 2 /\ Len(ret.value.data) = 1
    /\ SameInputs(prev.value.data[2], ret.value.data[1])
    /\ ~SameInputs(prev.value.data[1], prev.value.data[2])
    /\ ~SameSolve(prev.value.data[1], prev.value.data[2])

\* the sign of a*t^2 + 100*b*t + 10000*c, i.e. of a*x^2 + b*x + c at x = t/100
SignAt(a, b, c, t) ==
    LET v == a * t * t + 100 * b * t + 10000 * c
    IN  IF v > 0 THEN 1 ELSE IF v < 0 THEN 0 - 1 ELSE 0

\* b^2 - 4ac >= 0
RealRoots(a, b, c) ==
    \/ a = 0 \/ c = 0 \/ (a > 0) # (c > 0)
    \/ ((b * b) \div 4) \div Abs(c) >= Abs(a)

\* a*x^2 + b*x + c has a real root within 1/100 of t/100
HasRootNear(a, b, c, t) ==
    LET lo == SignAt(a, b, c, t - 1)
        hi == SignAt(a, b, c, t + 1)
        sa == IF a > 0 THEN 1 ELSE 0 - 1
    IN  \/ lo * hi <= 0
        \/ /\ a # 0 /\ RealRoots(a, b, c)
           /\ lo = sa
           /\ sa * 2 * a * (t - 1) <= sa * (0 - 100) * b
           /\ sa * (0 - 100) * b <= sa * 2 * a * (t + 1)

\* C5: for a sample generated by the forward model from (Csh, Rs) and
\* (Rvsh, Rhsh), the generating Csh is within 1e-2 of a root of the quadratic
\* a*Csh^2 + b*Csh + c = 0 that quadratic_inversion builds for it
C5_QuadraticRecoversCsh ==
    fwd.stage = "solved" => HasRootNear(fwd.a, fwd.b, fwd.c, (100 * fwd.p) \div FwdDen)

====
